---- MODULE Spec2Model ----
(***************************************************************************)
(* AnkiGen (src/app.py): the structured-completion invoker, the            *)
(* card-generation pipeline generate_cards, the flattening of card lists   *)
(* into indexed rows, and export_csv.                                      *)
(*                                                                         *)
(* One click of "Generate Cards" is followed through the handler.  The     *)
(* handler blocks on every API call, so it is cut at the calls: a request  *)
(* is issued, the API answers, the handler resumes.  "Export to CSV" may   *)
(* be clicked while no handler is running.                                 *)
(***************************************************************************)
EXTENDS Integers, Sequences, FiniteSets, TLC

(***************************************************************************)
(* Bounds of the model.                                                    *)
(***************************************************************************)
MaxTopicNumber == 3   \* topic_number is drawn from 1..MaxTopicNumber
MaxGroups == 3        \* Subtopics groups in a Topics answer
MaxPerGroup == 2      \* labels in one Subtopics group
MaxCards == 2         \* short card lists have 0..MaxCards cards
WideCards == 10       \* a card list long enough for a two-digit position
MaxExports == 2       \* clicks of the export button that are followed

(***************************************************************************)
(* Python values.  Objects are records, hasattr is membership in DOMAIN,   *)
(* None is an object without any of the fields the code asks for.          *)
(***************************************************************************)
None == [none |-> TRUE]

HasAttr(obj, attr) == attr \in DOMAIN obj

Min(a, b) == IF a < b THEN a ELSE b

(***************************************************************************)
(* Strings are sequences of one-character strings.                         *)
(***************************************************************************)
Digits == <<"0", "1", "2", "3", "4", "5", "6", "7", "8", "9">>

\* str(n) for n >= 0
RECURSIVE Str(_)
Str(n) == IF n < 10 THEN <<Digits[n + 1]>>
          ELSE Str(n \div 10) \o <<Digits[(n % 10) + 1]>>

\* the format specification 0{width} applied to the digits of an integer
RECURSIVE ZeroPad(_, _)
ZeroPad(s, width) == IF Len(s) >= width THEN s ELSE ZeroPad(<<"0">> \o s, width)

(***************************************************************************)
(* Schema values (pydantic models).                                        *)
(***************************************************************************)
\* Subtopics: the reasoning steps are not read by the pipeline
SubtopicsOf(labels) == [steps |-> <<>>, result |-> labels]

\* Topics
TopicsOf(groups) == [result |-> groups]

\* Card number j of the answer to the card request for a topic label
CardOf(label, j) ==
    [front |-> [question |-> <<"Q", label, j>>],
     back  |-> [answer |-> <<"A", label, j>>,
                explanation |-> <<"E", label, j>>,
                example |-> <<"X", label, j>>]]

\* CardList
CardListOf(label, n) == [topic |-> label, cards |-> [j \in 1..n |-> CardOf(label, j)]]

(***************************************************************************)
(* What client.beta.chat.completions.parse can do: raise, or return a      *)
(* completion object.                                                      *)
(***************************************************************************)
CallRaises == [raised |-> TRUE]

Returns(completion) == [raised |-> FALSE, completion |-> completion]

ParsedCompletion(parsed) == [choices |-> <<[message |-> [parsed |-> parsed]]>>]

\* completions from which no parsed value can be extracted
PoorCompletions ==
    { [id |-> "chatcmpl"],                                  \* no choices attribute
      [choices |-> <<>>],                                   \* no choice
      [choices |-> <<[finish_reason |-> "stop"]>>],         \* no message
      [choices |-> <<[message |-> [content |-> "text"]]>>], \* no parsed payload
      ParsedCompletion(None) }                              \* parsed is None

\* a completion whose inspection raises something other than AttributeError
FaultyCompletion == [fault |-> TRUE]

NoResponse == [raised |-> FALSE]

\* the sizes of the groups of a Topics answer; labels are numbered in the
\* order in which they are written in the answer
GroupSizes == UNION { [1..g -> 0..MaxPerGroup] : g \in 0..MaxGroups }

RECURSIVE SumTo(_, _)
SumTo(sizes, g) == IF g = 0 THEN 0 ELSE SumTo(sizes, g - 1) + sizes[g]

GroupsOf(sizes) ==
    [g \in 1..Len(sizes) |->
        SubtopicsOf([i \in 1..sizes[g] |-> SumTo(sizes, g - 1) + i])]

\* answers that carry a Topics value
TopicsAnswers == {Returns(ParsedCompletion(TopicsOf(GroupsOf(s)))) : s \in GroupSizes}

TopicAnswers ==
    {CallRaises} \cup {Returns(c) : c \in PoorCompletions \cup {FaultyCompletion}}
    \cup {Returns(ParsedCompletion([id |-> "other"]))}
    \cup TopicsAnswers

CardCounts == (0..MaxCards) \cup {WideCards}

\* answers that carry a CardList value
CardListAnswers(label) ==
    {Returns(ParsedCompletion(CardListOf(label, n))) : n \in CardCounts}

CardAnswers(label) ==
    {CallRaises} \cup {Returns(c) : c \in PoorCompletions \cup {FaultyCompletion}}
    \cup {Returns(ParsedCompletion([topic |-> label]))}
    \cup CardListAnswers(label)

(***************************************************************************)
(* structured_output_completion: the value it returns, or the gr.Error it  *)
(* raises, for what the API call did.                                      *)
(***************************************************************************)
InvokerReturn(value) == [raised |-> FALSE, value |-> value]

InvokerRaise == [raised |-> TRUE, value |-> None]

structured_output_completion(api) ==
    IF api.raised THEN InvokerReturn(None)
    ELSE LET completion == api.completion IN
         IF HasAttr(completion, "fault") THEN InvokerRaise
         ELSE IF ~HasAttr(completion, "choices") THEN InvokerReturn(None)
         ELSE IF completion.choices = <<>> THEN InvokerReturn(None)
         ELSE LET first_choice == completion.choices[1] IN
              IF ~HasAttr(first_choice, "message") THEN InvokerReturn(None)
              ELSE IF ~HasAttr(first_choice.message, "parsed") THEN InvokerReturn(None)
              ELSE InvokerReturn(first_choice.message.parsed)

(***************************************************************************)
(* The topic list: the labels of all groups, group by group, cut to the    *)
(* first topic_number labels.                                              *)
(***************************************************************************)
RECURSIVE FlattenTopics(_)
FlattenTopics(groups) ==
    IF groups = <<>> THEN <<>>
    ELSE Head(groups).result \o FlattenTopics(Tail(groups))

\* the slice taken one label too far
Truncate_OneMore(items, n) == SubSeq(items, 1, Min(n + 1, Len(items)))

Truncate(items, n) == SubSeq(items, 1, Min(n, Len(items)))

(***************************************************************************)
(* The outcome of lines 120-134 for what the invoker did.                  *)
(***************************************************************************)
\* lines 124-129 left out: None has no result attribute, the AttributeError
\* is caught at line 133 and raised as gr.Error; an empty collection goes on
TopicPhase_NoChecks(inv, n) ==
    IF inv.raised THEN [how |-> "raise", topic_list |-> <<>>]
    ELSE IF ~HasAttr(inv.value, "result") THEN [how |-> "raise", topic_list |-> <<>>]
    ELSE [how |-> "go", topic_list |-> Truncate(FlattenTopics(inv.value.result), n)]

TopicPhase(inv, n) ==
    IF inv.raised THEN [how |-> "raise", topic_list |-> <<>>]
    ELSE IF inv.value = None THEN [how |-> "return", topic_list |-> <<>>]
    ELSE IF ~HasAttr(inv.value, "result") THEN [how |-> "return", topic_list |-> <<>>]
    ELSE IF inv.value.result = <<>> THEN [how |-> "return", topic_list |-> <<>>]
    ELSE [how |-> "go", topic_list |-> Truncate(FlattenTopics(inv.value.result), n)]

(***************************************************************************)
(* The outcome of lines 147-160: the card list to append, or a skip.       *)
(***************************************************************************)
CardPhase(inv) ==
    IF inv.raised THEN [keep |-> FALSE, cards |-> None]
    ELSE IF inv.value = None THEN [keep |-> FALSE, cards |-> None]
    ELSE IF ~HasAttr(inv.value, "topic") \/ ~HasAttr(inv.value, "cards")
         THEN [keep |-> FALSE, cards |-> None]
    ELSE [keep |-> TRUE, cards |-> inv.value]

(***************************************************************************)
(* Flattening, lines 162-185.  The handler of lines 181-183 is not         *)
(* reached: every card list appended at line 157 has a topic and a list of *)
(* cards with front and back (lines 21-38), and formatting an index of two *)
(* integers does not raise.                                                *)
(***************************************************************************)
\* the width taken from the last zero-based position
Padding_ZeroBased(card_list) == Len(Str(Len(card_list.cards) - 1))

Padding(card_list) == Len(Str(Len(card_list.cards)))

FormatIndex(card_list_index, card_index, padding) ==
    Str(card_list_index) \o <<".">> \o ZeroPad(Str(card_index), padding)

MakeRow(card_list_index, card_list, card_index) ==
    LET card == card_list.cards[card_index] IN
    << FormatIndex(card_list_index, card_index, Padding(card_list)),
       card_list.topic,
       card.front.question,
       card.back.answer,
       card.back.explanation,
       card.back.example >>

\* the last card of every list left out
CardListRows_DropLast(card_list_index, card_list) ==
    [card_index \in 1..(Len(card_list.cards) - 1) |->
        MakeRow(card_list_index, card_list, card_index)]

CardListRows(card_list_index, card_list) ==
    [card_index \in 1..Len(card_list.cards) |->
        MakeRow(card_list_index, card_list, card_index)]

\* the card-list number never advanced
RECURSIVE FlattenFrom_SameIndex(_, _)
FlattenFrom_SameIndex(card_lists, card_list_index) ==
    IF card_lists = <<>> THEN <<>>
    ELSE CardListRows(card_list_index, Head(card_lists))
         \o FlattenFrom_SameIndex(Tail(card_lists), card_list_index)

RECURSIVE FlattenFrom(_, _)
FlattenFrom(card_lists, card_list_index) ==
    IF card_lists = <<>> THEN <<>>
    ELSE CardListRows(card_list_index, Head(card_lists))
         \o FlattenFrom(Tail(card_lists), card_list_index + 1)

FlattenData(card_lists) == FlattenFrom(card_lists, 1)

(***************************************************************************)
(* export_csv.                                                             *)
(***************************************************************************)
MIN_ROWS == 2

Headers == <<"Index", "Topic", "Question", "Answer", "Explanation", "Example">>

CsvName == "anki_deck.csv"

NoFile == <<>>

\* DataFrame.to_csv(index=False): the header line, then one line per row
ToCsv(d) == <<Headers>> \o d

\* a file left by an earlier export
PriorFile == ToCsv(FlattenData(<<CardListOf(0, 2)>>))

\* the threshold compared with <=
export_csv_AtMost(d, old_file) ==
    IF Len(d) <= MIN_ROWS
    THEN [file |-> old_file, returned |-> None, notice |-> "Warning"]
    ELSE [file |-> ToCsv(d), returned |-> [value |-> CsvName, visible |-> TRUE],
          notice |-> "Info"]

export_csv(d, old_file) ==
    IF Len(d) < MIN_ROWS
    THEN [file |-> old_file, returned |-> None, notice |-> "Warning"]
    ELSE [file |-> ToCsv(d), returned |-> [value |-> CsvName, visible |-> TRUE],
          notice |-> "Info"]

(***************************************************************************)
(* State.                                                                  *)
(***************************************************************************)
VARIABLES
    pc,                \* where the generate handler stands
    api_key_input,     \* inputs of the run
    topic_number,
    calls,             \* the requests issued to the API, in order
    pending,           \* requests issued and not yet answered
    response,          \* the answer of the API the handler has not yet taken
    answered,          \* numbers of the calls the API answered with a value of the schema
    topics_response,   \* local of generate_cards, lines 121-132
    topic_list,
    ti,                \* position of the loop of line 136 in topic_list
    kept,              \* positions in topic_list of the appended card lists
    all_card_lists,
    processing_errors, \* numbers of the calls for which the invoker raised (line 76)
    result,            \* how generate_cards ended
    output,            \* the rows shown in the table
    file,              \* content of anki_deck.csv
    download_link,
    notifications,     \* gr.Info / gr.Warning shown, in order
    exports            \* export clicks so far

vars == <<pc, api_key_input, topic_number, calls, pending, response, answered,
          topics_response, topic_list, ti, kept, all_card_lists,
          processing_errors, result, output, file, download_link,
          notifications, exports>>

runVars == <<pc, api_key_input, topic_number, calls, pending, response, answered,
             topics_response, topic_list, ti, kept, all_card_lists,
             processing_errors, result, output>>

Unset == [unset |-> TRUE]

NoResult == [how |-> "none", type |-> "none", rows |-> <<>>]

ReturnRows(rows) == [how |-> "return", type |-> "list", rows |-> rows]

ReturnErrorObject == [how |-> "return", type |-> "Error", rows |-> <<>>]

RaiseError == [how |-> "raise", type |-> "Error", rows |-> <<>>]

Init ==
    /\ pc = "idle"
    /\ api_key_input = ""
    /\ topic_number = 1
    /\ calls = <<>>
    /\ pending = {}
    /\ response = NoResponse
    /\ answered = {}
    /\ topics_response = Unset
    /\ topic_list = <<>>
    /\ ti = 1
    /\ kept = <<>>
    /\ all_card_lists = <<>>
    /\ processing_errors = {}
    /\ result = NoResult
    /\ output = <<>>
    /\ file \in {NoFile, PriorFile}
    /\ download_link = None
    /\ notifications = <<>>
    /\ exports = 0

(***************************************************************************)
(* generate_button.click: the handler is called with the form's values.    *)
(***************************************************************************)
Click ==
    /\ pc = "idle"
    /\ \E key \in {"", "sk"}, n \in 1..MaxTopicNumber :
          /\ api_key_input' = key
          /\ topic_number' = n
    /\ pc' = "called"
    /\ UNCHANGED <<calls, pending, response, answered, topics_response, topic_list, ti,
                   kept, all_card_lists, processing_errors, result, output,
                   file, download_link, notifications, exports>>

(***************************************************************************)
(* generate_cards, lines 100-118.  With an empty credential line 103       *)
(* returns a gr.Error object; it is no table, and the rows shown stay as   *)
(* they were.                                                              *)
(***************************************************************************)
Start ==
    /\ pc = "called"
    /\ notifications' = Append(notifications, "Info")
    /\ IF api_key_input = ""
       THEN /\ result' = ReturnErrorObject
            /\ pc' = "done"
       ELSE /\ result' = result
            /\ pc' = "topic_request"
    /\ all_card_lists' = <<>>
    /\ UNCHANGED <<api_key_input, topic_number, calls, pending, response, answered,
                   topics_response, topic_list, ti, kept, processing_errors,
                   output, file, download_link, exports>>

(***************************************************************************)
(* The call of line 45 for the topic request.                              *)
(***************************************************************************)
TopicRequest == [kind |-> "topic", topic |-> 0, n |-> topic_number]

TopicIssue ==
    /\ pc = "topic_request"
    /\ calls' = Append(calls, TopicRequest)
    /\ pending' = pending \cup {TopicRequest}
    /\ pc' = "topic_wait"
    /\ UNCHANGED <<api_key_input, topic_number, response, answered, topics_response,
                   topic_list, ti, kept, all_card_lists, processing_errors,
                   result, output, file, download_link, notifications, exports>>

\* the API answers the one request that is waiting
ApiRespond ==
    /\ response = NoResponse
    /\ \E req \in pending :
          /\ pending' = pending \ {req}
          /\ \/ /\ req.kind = "topic"
                /\ response' \in TopicAnswers
             \/ /\ req.kind = "card"
                /\ response' \in CardAnswers(req.topic)
          /\ answered' =
                IF response' \in TopicsAnswers \cup CardListAnswers(req.topic)
                THEN answered \cup {Len(calls)}
                ELSE answered
    /\ UNCHANGED <<pc, api_key_input, topic_number, calls, topics_response,
                   topic_list, ti, kept, all_card_lists, processing_errors,
                   result, output, file, download_link, notifications, exports>>

(***************************************************************************)
(* Lines 120-134 once the call has answered.                               *)
(***************************************************************************)
TopicReturn ==
    /\ pc = "topic_wait"
    /\ response # NoResponse
    /\ LET inv == structured_output_completion(response)
           out == TopicPhase(inv, topic_number)
       IN /\ processing_errors' =
                IF inv.raised THEN processing_errors \cup {Len(calls)}
                ELSE processing_errors
          /\ topics_response' = IF inv.raised THEN Unset ELSE inv.value
          /\ topic_list' = out.topic_list
          /\ CASE out.how = "raise" ->
                    /\ result' = RaiseError
                    /\ pc' = "raised"
                    /\ output' = output
               [] out.how = "return" ->
                    /\ result' = ReturnRows(<<>>)
                    /\ pc' = "done"
                    /\ output' = <<>>
               [] OTHER ->
                    /\ result' = result
                    /\ pc' = "card_loop"
                    /\ output' = output
    /\ response' = NoResponse
    /\ ti' = 1
    /\ UNCHANGED <<api_key_input, topic_number, calls, pending, answered, kept,
                   all_card_lists, file, download_link, notifications, exports>>

(***************************************************************************)
(* The loop of line 136: the call of line 45 for the next topic label.     *)
(* topics_response is not read after line 132 and is forgotten here.       *)
(***************************************************************************)
CardRequest(topic) == [kind |-> "card", topic |-> topic, n |-> 0]

CardIssue ==
    /\ pc = "card_loop"
    /\ ti <= Len(topic_list)
    /\ calls' = Append(calls, CardRequest(topic_list[ti]))
    /\ pending' = pending \cup {CardRequest(topic_list[ti])}
    /\ topics_response' = Unset
    /\ pc' = "card_wait"
    /\ UNCHANGED <<api_key_input, topic_number, response, answered, topic_list, ti, kept,
                   all_card_lists, processing_errors, result, output, file,
                   download_link, notifications, exports>>

\* a failed card request ends the loop instead of going on to the next topic
CardReturn_BreakOnFailure ==
    /\ pc = "card_wait"
    /\ response # NoResponse
    /\ LET inv == structured_output_completion(response)
           out == CardPhase(inv)
       IN /\ processing_errors' =
                IF inv.raised THEN processing_errors \cup {Len(calls)}
                ELSE processing_errors
          /\ all_card_lists' =
                IF out.keep THEN Append(all_card_lists, out.cards)
                ELSE all_card_lists
          /\ kept' = IF out.keep THEN Append(kept, ti) ELSE kept
          /\ ti' = IF out.keep THEN ti + 1 ELSE Len(topic_list) + 1
    /\ response' = NoResponse
    /\ pc' = "card_loop"
    /\ UNCHANGED <<api_key_input, topic_number, calls, pending, answered, topics_response,
                   topic_list, result, output, file, download_link,
                   notifications, exports>>

(***************************************************************************)
(* Lines 147-160 once the call has answered.                               *)
(***************************************************************************)
CardReturn ==
    /\ pc = "card_wait"
    /\ response # NoResponse
    /\ LET inv == structured_output_completion(response)
           out == CardPhase(inv)
       IN /\ processing_errors' =
                IF inv.raised THEN processing_errors \cup {Len(calls)}
                ELSE processing_errors
          /\ all_card_lists' =
                IF out.keep THEN Append(all_card_lists, out.cards)
                ELSE all_card_lists
          /\ kept' = IF out.keep THEN Append(kept, ti) ELSE kept
    /\ response' = NoResponse
    /\ ti' = ti + 1
    /\ pc' = "card_loop"
    /\ UNCHANGED <<api_key_input, topic_number, calls, pending, answered, topics_response,
                   topic_list, result, output, file, download_link,
                   notifications, exports>>

\* card lists numbered by the position of their topic in topic_list
RECURSIVE FlattenAt(_, _)
FlattenAt(card_lists, positions) ==
    IF card_lists = <<>> THEN <<>>
    ELSE CardListRows(Head(positions), Head(card_lists))
         \o FlattenAt(Tail(card_lists), Tail(positions))

Flatten_ByTopicPosition ==
    /\ pc = "card_loop"
    /\ ti > Len(topic_list)
    /\ result' = ReturnRows(FlattenAt(all_card_lists, kept))
    /\ output' = FlattenAt(all_card_lists, kept)
    /\ topics_response' = Unset
    /\ pc' = "done"
    /\ UNCHANGED <<api_key_input, topic_number, calls, pending, response, answered,
                   topic_list, ti, kept, all_card_lists, processing_errors,
                   file, download_link, notifications, exports>>

(***************************************************************************)
(* Lines 162-185 after the loop, and the table the rows are shown in.      *)
(***************************************************************************)
Flatten ==
    /\ pc = "card_loop"
    /\ ti > Len(topic_list)
    /\ result' = ReturnRows(FlattenData(all_card_lists))
    /\ output' = FlattenData(all_card_lists)
    /\ topics_response' = Unset
    /\ pc' = "done"
    /\ UNCHANGED <<api_key_input, topic_number, calls, pending, response, answered,
                   topic_list, ti, kept, all_card_lists, processing_errors,
                   file, download_link, notifications, exports>>

(***************************************************************************)
(* export_button.click while no generation is running.                     *)
(***************************************************************************)
Export ==
    /\ pc \in {"idle", "done", "raised"}
    /\ exports < MaxExports
    /\ exports' = exports + 1
    /\ LET out == export_csv(output, file)
       IN /\ file' = out.file
          /\ download_link' = out.returned
          /\ notifications' = Append(notifications, out.notice)
    /\ UNCHANGED runVars

RunStep ==
    \/ Start
    \/ TopicIssue
    \/ ApiRespond
    \/ TopicReturn
    \/ CardIssue
    \/ CardReturn
    \/ Flatten

Next ==
    \/ Click
    \/ RunStep
    \/ Export

Spec == Init /\ [][Next]_vars

\* a started handler keeps running, and every API call answers or raises
FairSpec == Spec /\ WF_vars(RunStep)

(***************************************************************************)
(* Reading a row back: the index is "<group>.<position>".                  *)
(***************************************************************************)
Terminal == pc \in {"done", "raised"}

ReturnedRows == pc = "done" /\ result.type = "list"

DigitValue(c) == CHOOSE d \in 0..9 : Digits[d + 1] = c

RECURSIVE ParseNat(_)
ParseNat(s) ==
    IF s = <<>> THEN 0
    ELSE 10 * ParseNat(SubSeq(s, 1, Len(s) - 1)) + DigitValue(s[Len(s)])

DotAt(index) == CHOOSE i \in 1..Len(index) : index[i] = "."

WellFormedIndex(index) ==
    /\ Cardinality({i \in 1..Len(index) : index[i] = "."}) = 1
    /\ DotAt(index) > 1
    /\ DotAt(index) < Len(index)

GroupText(row) == SubSeq(row[1], 1, DotAt(row[1]) - 1)

PositionText(row) == SubSeq(row[1], DotAt(row[1]) + 1, Len(row[1]))

GroupOf(row) == ParseNat(GroupText(row))

PositionOf(row) == ParseNat(PositionText(row))

\* the positions in topic_list whose card request was answered with a CardList,
\* in topic order (call number p + 1 is the card request of position p)
RECURSIVE SurvivorsUpTo(_)
SurvivorsUpTo(p) ==
    IF p = 0 THEN <<>>
    ELSE IF (p + 1) \in answered THEN Append(SurvivorsUpTo(p - 1), p)
    ELSE SurvivorsUpTo(p - 1)

Survivors == SurvivorsUpTo(Len(topic_list))

RECURSIVE SumCards(_)
SumCards(card_lists) ==
    IF card_lists = <<>> THEN 0
    ELSE Len(Head(card_lists).cards) + SumCards(Tail(card_lists))

\* the number of decimal digits of n, 0 <= n < 1000
DecimalWidth(n) == IF n < 10 THEN 1 ELSE IF n < 100 THEN 2 ELSE 3

(***************************************************************************)
(* C1: generate_cards called with an empty credential issues no API call   *)
(* and ends by raising a fatal error, not by returning a value.            *)
(***************************************************************************)
C1_MissingCredentialIsFatal ==
    (Terminal /\ api_key_input = "") => (calls = <<>> /\ result.how = "raise")

(***************************************************************************)
(* C2: whenever the invoker raised its processing error, for the topic     *)
(* request or for a card request, the run ends by raising a fatal error:   *)
(* it neither goes on nor returns rows.                                    *)
(***************************************************************************)
C2_ProcessingErrorIsFatal ==
    processing_errors # {} => (pc = "raised" /\ result.how = "raise")

(***************************************************************************)
(* C3: when card requests fail for some topics the run still asks for      *)
(* every topic, the rows are those of the topics whose request succeeded,  *)
(* in topic order, and the i-th surviving card list is numbered i.         *)
(***************************************************************************)
C3_SkipAndContinue ==
    ReturnedRows =>
        LET rows == result.rows IN
        /\ Len(calls) = 1 + Len(topic_list)
        /\ Len(all_card_lists) = Len(Survivors)
        /\ \A r \in 1..Len(rows) :
              /\ WellFormedIndex(rows[r][1])
              /\ GroupOf(rows[r]) \in 1..Len(Survivors)
              /\ rows[r][2] = topic_list[Survivors[GroupOf(rows[r])]]
        /\ \A r \in 1..(Len(rows) - 1) : GroupOf(rows[r]) <= GroupOf(rows[r + 1])
        /\ \A i \in 1..Len(Survivors) :
              all_card_lists[i].cards # <<>> =>
                 \E r \in 1..Len(rows) :
                    /\ GroupOf(rows[r]) = i
                    /\ rows[r][2] = topic_list[Survivors[i]]

\* topic 2 of 3 failed: rows of topics 1 and 3, numbered 1 and 2
C3_Witness ==
    /\ ReturnedRows
    /\ Len(topic_list) = 3
    /\ Survivors = <<1, 3>>
    /\ \E r \in 1..Len(result.rows) :
          GroupOf(result.rows[r]) = 2 /\ result.rows[r][2] = topic_list[3]
    /\ \E r \in 1..Len(result.rows) :
          GroupOf(result.rows[r]) = 1 /\ result.rows[r][2] = topic_list[1]

(***************************************************************************)
(* C4: when the topic request gives absence, or a Topics value with an     *)
(* empty collection, generate_cards returns the empty row sequence,        *)
(* raises nothing, and the topic request stays the only call.              *)
(***************************************************************************)
C4_SoftAbort ==
    (\/ topics_response = None
     \/ (HasAttr(topics_response, "result") /\ topics_response.result = <<>>))
    => /\ pc = "done"
       /\ result = ReturnRows(<<>>)
       /\ Len(calls) = 1
       /\ calls[1].kind = "topic"
       /\ pending = {}

C4_Witness ==
    /\ pc = "done"
    /\ api_key_input # ""
    /\ HasAttr(topics_response, "result")
    /\ topics_response.result = <<>>
    /\ result = ReturnRows(<<>>)

(***************************************************************************)
(* C5: when the topic request and every card request succeed, the number   *)
(* of rows is the sum of the lengths of the returned card lists, and every *)
(* card of every list is in exactly one row.                               *)
(***************************************************************************)
AllSucceeded ==
    /\ ReturnedRows
    /\ topic_list # <<>>
    /\ answered = 1..(1 + Len(topic_list))

C5_RowCount ==
    AllSucceeded =>
        LET rows == result.rows IN
        /\ Len(all_card_lists) = Len(topic_list)
        /\ Len(rows) = SumCards(all_card_lists)
        /\ \A k \in 1..Len(all_card_lists) :
              \A j \in 1..Len(all_card_lists[k].cards) :
                 Cardinality({r \in 1..Len(rows) :
                     rows[r][3] = all_card_lists[k].cards[j].front.question}) = 1

\* three topics whose card lists have different lengths
C5_Witness ==
    /\ AllSucceeded
    /\ Len(all_card_lists) = 3
    /\ Len(all_card_lists[1].cards) = WideCards
    /\ Len(all_card_lists[2].cards) = 1
    /\ Len(all_card_lists[3].cards) = 2
    /\ Len(result.rows) = WideCards + 3

(***************************************************************************)
(* C6: in every row sequence generate_cards returns, the index strings are *)
(* pairwise distinct, the rows of card list k carry the prefix k and come  *)
(* before those of card list k+1, and within a card list the positions are *)
(* 1..T in the order of the cards.                                         *)
(***************************************************************************)
C6_IndexOrder ==
    ReturnedRows =>
        LET rows == result.rows IN
        /\ \A r \in 1..Len(rows) : WellFormedIndex(rows[r][1])
        /\ \A r1, r2 \in 1..Len(rows) : r1 # r2 => rows[r1][1] # rows[r2][1]
        /\ \A r \in 1..Len(rows) :
              /\ GroupOf(rows[r]) \in 1..Len(all_card_lists)
              /\ GroupText(rows[r]) = Str(GroupOf(rows[r]))
              /\ PositionOf(rows[r]) \in 1..Len(all_card_lists[GroupOf(rows[r])].cards)
              /\ rows[r][3] =
                    all_card_lists[GroupOf(rows[r])].cards[PositionOf(rows[r])].front.question
        /\ \A r \in 1..(Len(rows) - 1) :
              \/ /\ GroupOf(rows[r + 1]) = GroupOf(rows[r])
                 /\ PositionOf(rows[r + 1]) = PositionOf(rows[r]) + 1
              \/ /\ GroupOf(rows[r + 1]) > GroupOf(rows[r])
                 /\ PositionOf(rows[r + 1]) = 1
                 /\ PositionOf(rows[r]) = Len(all_card_lists[GroupOf(rows[r])].cards)
        /\ rows # <<>> => PositionOf(rows[1]) = 1

C6_Witness ==
    /\ ReturnedRows
    /\ Len(all_card_lists) = 3
    /\ Len(all_card_lists[1].cards) = 2
    /\ Len(all_card_lists[2].cards) = WideCards
    /\ Len(all_card_lists[3].cards) = 2
    /\ result.rows[2][1] = <<"1", ".", "2">>
    /\ result.rows[3][1] = <<"2", ".", "0", "1">>

(***************************************************************************)
(* C7, as stated: whenever the Topics answer has more groups than          *)
(* topic_number, the topic list has exactly topic_number labels.           *)
(***************************************************************************)
TopicsTaken ==
    /\ pc = "card_loop"
    /\ HasAttr(topics_response, "result")

TotalLabels == Len(FlattenTopics(topics_response.result))

C7_ExactlyNWhenMoreGroups ==
    (TopicsTaken /\ Len(topics_response.result) > topic_number)
    => Len(topic_list) = topic_number

(***************************************************************************)
(* C7, amended: the topic list is the first min(topic_number, L) labels of *)
(* the answer in the order written, L being the number of labels in all    *)
(* groups; it has exactly topic_number labels when L >= topic_number, all  *)
(* L labels otherwise, and never more than topic_number.                   *)
(***************************************************************************)
C7_Truncation ==
    TopicsTaken =>
        /\ Len(topic_list) = Min(topic_number, TotalLabels)
        /\ \A i \in 1..Len(topic_list) : topic_list[i] = i
        /\ Len(topic_list) <= topic_number
        /\ TotalLabels >= topic_number => Len(topic_list) = topic_number
        /\ TotalLabels < topic_number => Len(topic_list) = TotalLabels
        /\ result.how # "raise"

\* more groups than topic_number, more labels than topic_number
C7_Witness ==
    /\ TopicsTaken
    /\ topic_number = 2
    /\ Len(topics_response.result) = 3
    /\ TotalLabels = 5
    /\ topic_list = <<1, 2>>

(***************************************************************************)
(* C8: an export of a table of fewer than 2 rows warns, returns no file    *)
(* reference and leaves the file as it was; an export of 2 or more rows    *)
(* makes the file the header line followed by exactly the rows of the      *)
(* table, whatever it held before, and returns a reference to it.          *)
(***************************************************************************)
C8_ExportThreshold ==
    [][exports' # exports =>
         IF Len(output) < 2
         THEN /\ file' = file
              /\ download_link' = None
              /\ notifications' = Append(notifications, "Warning")
         ELSE /\ Len(file') = 1 + Len(output)
              /\ file'[1] = Headers
              /\ \A r \in 1..Len(output) : file'[r + 1] = output[r]
              /\ download_link' = [value |-> CsvName, visible |-> TRUE]
              /\ notifications' = Append(notifications, "Info")]_vars

\* a table of exactly 2 rows has been exported
C8_Witness ==
    /\ exports > 0
    /\ Len(output) = 2
    /\ Len(file) = 3
    /\ file # PriorFile
    /\ download_link # None

(***************************************************************************)
(* C9, as stated: every run that passes the credential check ends with the *)
(* row sequence.                                                           *)
(***************************************************************************)
C9_EndsWithRows ==
    (Terminal /\ api_key_input # "") => (result.how = "return" /\ result.type = "list")

(***************************************************************************)
(* C9, amended: in a run that passes the credential check at most one call *)
(* is outstanding, a call is issued only when none is outstanding and none *)
(* is unread, the calls are the topic request followed by the card         *)
(* requests of topic_list in order, a run that returns has made exactly    *)
(* one card request per label whatever failed, never more than             *)
(* 1 + topic_number calls, and the run ends: with the row sequence, or     *)
(* with a fatal error after the topic request alone.                       *)
(***************************************************************************)
CallsInOrder ==
    /\ Cardinality(pending) <= 1
    /\ pending # {} => response = NoResponse
    /\ Len(calls) <= 1 + topic_number
    /\ calls # <<>> => (api_key_input # "" /\ calls[1] = TopicRequest)
    /\ \A c \in 2..Len(calls) :
          /\ c - 1 <= Len(topic_list)
          /\ calls[c] = CardRequest(topic_list[c - 1])
    /\ (pc = "done" /\ api_key_input # "") =>
          /\ result.how = "return"
          /\ result.type = "list"
          /\ Len(calls) = 1 + Len(topic_list)
          /\ pending = {}
    /\ pc = "raised" => (Len(calls) = 1 /\ pending = {} /\ result.how = "raise")

C9_SequentialCalls ==
    /\ []CallsInOrder
    /\ [][calls' # calls =>
            /\ pending = {}
            /\ response = NoResponse
            /\ Len(calls') = Len(calls) + 1]_vars
    /\ (pc = "called") ~> Terminal

\* the second of two card requests failed, the third was still made
C9_Witness ==
    /\ pc = "done"
    /\ Len(topic_list) = 3
    /\ Len(calls) = 4
    /\ answered = {1, 2, 4}
    /\ result.type = "list"

(***************************************************************************)
(* C10: the position in a row index is padded with zeros to the number of  *)
(* decimal digits of the card count of the row's own card list.            *)
(***************************************************************************)
C10_PaddingPerList ==
    ReturnedRows =>
        \A r \in 1..Len(result.rows) :
           /\ WellFormedIndex(result.rows[r][1])
           /\ GroupOf(result.rows[r]) \in 1..Len(all_card_lists)
           /\ Len(PositionText(result.rows[r])) =
                 DecimalWidth(Len(all_card_lists[GroupOf(result.rows[r])].cards))

\* one output with positions of width 2 and of width 1
C10_Witness ==
    /\ ReturnedRows
    /\ Len(all_card_lists) = 2
    /\ Len(all_card_lists[1].cards) = WideCards
    /\ Len(all_card_lists[2].cards) = 2
    /\ result.rows[1][1] = <<"1", ".", "0", "1">>
    /\ result.rows[WideCards][1] = <<"1", ".", "1", "0">>
    /\ result.rows[WideCards + 2][1] = <<"2", ".", "2">>

====
